---- MODULE Spec2Model ----
(***************************************************************************)
(* Impersonator: the POST handler of src/app/api/generate-lyrics/route.ts  *)
(* and the form client of src/modules/home/ui/views/home-view.tsx.         *)
(*                                                                         *)
(* Spec       : the request handler, one request at a time, with the two   *)
(*              providers as its environment.                              *)
(* ClientSpec : the form client, with fetch and the timer as environment.  *)
(* ClientFair : ClientSpec plus the fairness the event loop gives.         *)
(***************************************************************************)
EXTENDS Integers, Sequences, FiniteSets

VARIABLES
    \* ---- request handler (route.ts) ----
    env,               \* process.env: the three completion-provider key sources
    pc,                \* position of POST: idle, parsing, awaitLyrics, awaitCompletion, done
    req,               \* what req.json() yields for the current request
    originalLyrics,    \* let originalLyrics (route.ts:31)
    prompt,            \* const prompt (route.ts:54)
    lyricsCall,        \* getLyrics call: none, inflight, settled
    completionCall,    \* client.chat.completions.create call: none, inflight, settled
    lyricsCalls,       \* number of getLyrics calls made for the current request
    completionCalls,   \* number of completion calls made for the current request
    lyricsOutcome,     \* how the getLyrics call settled
    completionOutcome, \* how the completion call settled
    response,          \* the NextResponse returned for the current request
    nResponses,        \* number of responses returned for the current request
    \* ---- form client (home-view.tsx) ----
    authorName, song, description,  \* controlled inputs (home-view.tsx:24-26)
    error, loading, result,         \* useState (home-view.tsx:19-21)
    cpc,               \* position of handleSubmit: idle, fetching, readingText, readingJson
    res,               \* the Response the fetch resolved with
    timeout,           \* the setTimeout of the current submission: none, armed, cleared, fired
    aborted,           \* controller.signal.aborted of the current submission
    staleTimers,       \* timers of earlier submissions that were never cleared
    lastSubmit         \* the last submit: the values submitted and whether fetch was called

serverVars == <<env, pc, req, originalLyrics, prompt, lyricsCall, completionCall,
                lyricsCalls, completionCalls, lyricsOutcome, completionOutcome,
                response, nResponses>>
clientVars == <<authorName, song, description, error, loading, result, cpc, res,
                timeout, aborted, staleTimers, lastSubmit>>
vars == <<serverVars, clientVars>>

----------------------------------------------------------------------------
(* JavaScript values, tagged by type.                                      *)

Undefined == [t |-> "undefined"]
JsNull == [t |-> "null"]
Str(s) == [t |-> "str", v |-> s]
\* a number, carried as its decimal rendering
Num(d) == [t |-> "num", digits |-> d]
\* a JS array
Arr(items) == [t |-> "arr", items |-> items]

\* JS truthiness, as used by !x, x || y and if (x)
Truthy(v) ==
    CASE v.t = "undefined" -> FALSE
      [] v.t = "null" -> FALSE
      [] v.t = "str" -> v.v # ""
      [] v.t = "num" -> v.digits # "0"
      [] OTHER -> TRUE

\* a || b
Or(a, b) == IF Truthy(a) THEN a ELSE b

\* ${v} in a template literal, String(v)
TemplateString(v) ==
    CASE v.t = "undefined" -> "undefined"
      [] v.t = "null" -> "null"
      [] v.t = "str" -> v.v
      [] v.t = "num" -> v.digits
      [] OTHER -> "[object Object]"

\* JSON.stringify(v): a Str, or Undefined for a value with no JSON form.
\* The strings of this model hold no character that JSON escapes.
RECURSIVE JsonStringify(_)
JsonStringify(v) ==
    CASE v.t = "undefined" -> Undefined
      [] v.t = "null" -> Str("null")
      [] v.t = "str" -> Str("\"" \o v.v \o "\"")
      [] v.t = "num" -> Str(v.digits)
      [] v.t = "geniusObj" ->
           Str("{" \o (IF v.lyrics.t = "undefined" THEN ""
                       ELSE "\"lyrics\":" \o JsonStringify(v.lyrics).v) \o "}")
      [] v.t = "msg" ->
           Str("{\"role\":\"" \o v.role \o "\""
               \o (IF v.content.t = "undefined" THEN ""
                   ELSE ",\"content\":" \o JsonStringify(v.content).v) \o "}")
      [] OTHER -> Str("{}")

\* s.slice(0, n)
Slice(s, n) == SubSeq(s, 1, IF Len(s) < n THEN Len(s) ELSE n)

----------------------------------------------------------------------------
(* Bounds of the model.                                                    *)

\* longest content array of a completion message
MaxParts == 2
\* most timers of earlier submissions still pending at once
MaxStaleTimers == 1

----------------------------------------------------------------------------
(* Request handler: inputs.                                                *)

\* values a field of the JSON body can take: absent, empty, non-empty
AuthorValues == {Undefined, Str(""), Str("Adele")}
SongValues == {Undefined, Str(""), Str("Hello")}
DescriptionValues == {Undefined, Str(""), Str("sad")}

\* what the request carries: text that is not JSON, the JSON null, a JSON
\* primitive, or a JSON object with any of the three fields
Bodies ==
    {[t |-> "invalid"], JsNull, Num("7")}
    \cup {[t |-> "obj", authorName |-> a, song |-> s, description |-> d] :
            a \in AuthorValues, s \in SongValues, d \in DescriptionValues}

\* body.f after `const { authorName, song, description } = body`
Field(body, f) == IF body.t = "obj" THEN body[f] ELSE Undefined

KeyValues == {Undefined, Str(""), Str("sk-key")}
Envs == [GEMINI_API_KEY : KeyValues, OPENROUTER_API_KEY : KeyValues,
         OPENAI_API_KEY : KeyValues]

\* getLyrics settles: it throws, or returns a value of unknown shape
GeniusObj(l) == [t |-> "geniusObj", lyrics |-> l]
LyricsOutcomes ==
    {[t |-> "throw"], Undefined, JsNull, Num("7"),
     Str(""), Str("la la"),
     GeniusObj(Str("la la")), GeniusObj(Num("5")), GeniusObj(Undefined)}

\* a thrown value: an Error (its message, and "Error: message" as its string
\* form) or any other value (its string form only)
Thrown == {[isError |-> TRUE, message |-> Str("429 Too Many Requests"),
            string |-> "Error: 429 Too Many Requests"],
           [isError |-> TRUE, message |-> Str(""), string |-> "Error"],
           [isError |-> FALSE, message |-> Undefined, string |-> "boom"]}

\* a content part: a string, an object with a text field of any type, or junk
Part(x) == [t |-> "part", text |-> x]
Parts == {Str("foo"), Part(Str("bar")), Part(Num("7")), Part(Undefined), JsNull}
PartSeqs == UNION {[1..n -> Parts] : n \in 0..MaxParts}

Msg(c) == [t |-> "msg", role |-> "assistant", content |-> c]
Contents == {Undefined, JsNull, Str(""), Str("hello"), Num("0"), Num("7")}
            \cup {Arr(ps) : ps \in PartSeqs}
Messages == {Undefined, Str("raw")} \cup {Msg(c) : c \in Contents}

\* a completion object: choices absent, empty, or one choice
Completions ==
    {[hasChoices |-> FALSE, choices |-> <<>>], [hasChoices |-> TRUE, choices |-> <<>>]}
    \cup {[hasChoices |-> TRUE, choices |-> <<[message |-> m]>>] : m \in Messages}

CompletionOutcomes ==
    {[t |-> "throw", err |-> e] : e \in Thrown}
    \cup {[t |-> "ok", completion |-> c] : c \in Completions}

None == [t |-> "none"]
Response(status, key, text) == [t |-> "response", status |-> status, key |-> key, text |-> text]

----------------------------------------------------------------------------
(* Request handler: the pure steps of POST.                                *)

\* route.ts:35-47, with the catch of 48-51 leaving originalLyrics = ""
ExtractOriginalLyricsNoFallback(g) ==
    CASE g.t = "throw" -> ""
      [] g.t = "str" -> g.v
      [] g.t = "geniusObj" /\ g.lyrics.t = "str" -> g.lyrics.v
      [] OTHER -> ""
ExtractOriginalLyrics(g) ==
    CASE g.t = "throw" -> ""
      [] g.t = "str" -> g.v
      [] g.t = "geniusObj" /\ g.lyrics.t = "str" -> g.lyrics.v
      [] OTHER ->
           \* JSON.stringify(undefined) is undefined: .slice throws, caught at 48
           IF JsonStringify(g).t = "undefined" THEN ""
           ELSE Slice(JsonStringify(g).v, 4000)

PromptHead == "You are a creative assistant that writes song lyrics in the style of the provided artist/song.\n\nOriginal Lyrics:\n"
PromptMid == "\n\nDescription/Mood:\n"
PromptTail == "\n\nPlease generate an original set of lyrics inspired by the above (do not reproduce copyrighted lyrics)."

\* route.ts:54
BuildPrompt(lyr, desc) ==
    PromptHead \o lyr \o PromptMid \o TemplateString(desc) \o PromptTail

\* route.ts:56-59
geminiKey(e) == Or(Or(e.GEMINI_API_KEY, e.OPENROUTER_API_KEY), e.OPENAI_API_KEY)

\* route.ts:60, if (!geminiKey)
KeyMissingOnlyUndefined(key) == key = Undefined
KeyMissing(key) == ~Truthy(key)

\* route.ts:113-123, the callback of c.map
PartText(it) ==
    CASE it.t = "str" -> it.v
      [] it.t = "part" /\ it.text.t = "str" -> it.text.v
      [] OTHER -> ""

\* route.ts:112-124, c.map(...).join("")
RECURSIVE JoinParts(_)
JoinParts(ps) ==
    IF ps = <<>> THEN "" ELSE PartText(Head(ps)) \o JoinParts(Tail(ps))

\* route.ts:99, completion.choices?.[0]?.message
FirstMessage(c) ==
    IF ~c.hasChoices \/ c.choices = <<>> THEN Undefined ELSE c.choices[1].message

\* route.ts:102-130
ExtractLyrics(message) ==
    IF ~Truthy(message) THEN ""
    ELSE IF message.t = "str" THEN message.v
    ELSE IF Truthy(message.content) THEN
        LET c == message.content IN
        IF c.t = "str" THEN c.v
        ELSE IF c.t = "arr" THEN JoinParts(c.items)
        ELSE TemplateString(c)
    ELSE JsonStringify(message).v

\* a ?? b
Nullish(a, b) == IF a.t \in {"undefined", "null"} THEN b ELSE a

\* route.ts:135-138: err instanceof Error ? err.message : String(err), ?? "Server error"
ErrorMessageGeneric(err) == "Server error"
ErrorMessage(err) ==
    Nullish(IF err.isError THEN err.message ELSE Str(err.string), Str("Server error")).v

\* what req.json() (line 13) and the destructuring of line 14 throw
JsonSyntaxError ==
    [isError |-> TRUE, message |-> Str("Unexpected token in JSON"),
     string |-> "SyntaxError: Unexpected token in JSON"]
DestructureTypeError ==
    [isError |-> TRUE,
     message |-> Str("Cannot destructure property 'authorName' of 'body' as it is null."),
     string |-> "TypeError: Cannot destructure property 'authorName' of 'body' as it is null."]

----------------------------------------------------------------------------
(* Request handler: the steps of POST, one action per await.               *)

ClientUnchanged == UNCHANGED clientVars

\* return NextResponse.json(...) : the request ends with this response
Respond(r) ==
    /\ response' = r
    /\ nResponses' = nResponses + 1
    /\ pc' = "done"

\* route.ts:133-140, the top-level catch
Catch(err) == Respond(Response(500, "error", ErrorMessage(err)))

\* route.ts:11-13: a request arrives and POST awaits req.json().
\* Requests are independent: each starts from fresh locals.
POST(body) ==
    /\ pc \in {"idle", "done"}
    /\ pc' = "parsing"
    /\ req' = body
    /\ originalLyrics' = ""
    /\ prompt' = ""
    /\ lyricsCall' = "none"
    /\ completionCall' = "none"
    /\ lyricsCalls' = 0
    /\ completionCalls' = 0
    /\ lyricsOutcome' = None
    /\ completionOutcome' = None
    /\ response' = None
    /\ nResponses' = 0
    /\ UNCHANGED env
    /\ ClientUnchanged

\* route.ts:13-34: req.json() settles, the body is destructured and validated,
\* and getLyrics is called
ParseBodyConcurrent ==
    /\ pc = "parsing"
    /\ req.t = "obj" /\ Truthy(req.authorName) /\ Truthy(req.song)
    /\ pc' = "awaitLyrics"
    /\ lyricsCall' = "inflight" /\ lyricsCalls' = lyricsCalls + 1
    /\ completionCall' = "inflight" /\ completionCalls' = completionCalls + 1
    /\ UNCHANGED <<env, req, originalLyrics, prompt, lyricsOutcome,
                   completionOutcome, response, nResponses>>
    /\ ClientUnchanged
ParseBody ==
    /\ pc = "parsing"
    /\ IF req.t = "invalid" THEN
           /\ Catch(JsonSyntaxError)
           /\ UNCHANGED <<lyricsCall, lyricsCalls>>
       ELSE IF req.t = "null" THEN
           /\ Catch(DestructureTypeError)
           /\ UNCHANGED <<lyricsCall, lyricsCalls>>
       ELSE IF ~Truthy(Field(req, "authorName")) \/ ~Truthy(Field(req, "song")) THEN
           /\ Respond(Response(400, "error", "Missing authorName or song"))
           /\ UNCHANGED <<lyricsCall, lyricsCalls>>
       ELSE
           /\ pc' = "awaitLyrics"
           /\ lyricsCall' = "inflight"
           /\ lyricsCalls' = lyricsCalls + 1
           /\ UNCHANGED <<response, nResponses>>
    /\ UNCHANGED <<env, req, originalLyrics, prompt, completionCall, completionCalls,
                   lyricsOutcome, completionOutcome>>
    /\ ClientUnchanged

\* route.ts:34-79: getLyrics settles with g; the lyrics are extracted, the
\* prompt is built, the key is resolved, and the completion call is made
LyricsSettle(g) ==
    /\ pc = "awaitLyrics"
    /\ lyricsCall = "inflight"
    /\ lyricsCall' = "settled"
    /\ lyricsOutcome' = g
    /\ originalLyrics' = ExtractOriginalLyrics(g)
    /\ prompt' = BuildPrompt(originalLyrics', Field(req, "description"))
    /\ IF KeyMissing(geminiKey(env)) THEN
           /\ Respond(Response(500, "error", "Missing GEMINI_API_KEY / OpenRouter API key"))
           /\ UNCHANGED <<completionCall, completionCalls>>
       ELSE
           /\ pc' = "awaitCompletion"
           /\ completionCall' = "inflight"
           /\ completionCalls' = completionCalls + 1
           /\ UNCHANGED <<response, nResponses>>
    /\ UNCHANGED <<env, req, lyricsCalls, completionOutcome>>
    /\ ClientUnchanged

\* route.ts:79-140: the completion call settles; the text is extracted and
\* returned, or the exception reaches the top-level catch
CompletionSettle(o) ==
    /\ pc = "awaitCompletion"
    /\ completionCall = "inflight"
    /\ completionCall' = "settled"
    /\ completionOutcome' = o
    /\ IF o.t = "throw" THEN Catch(o.err)
       ELSE Respond(Response(200, "lyrics", ExtractLyrics(FirstMessage(o.completion))))
    /\ UNCHANGED <<env, req, originalLyrics, prompt, lyricsCall, lyricsCalls,
                   completionCalls, lyricsOutcome>>
    /\ ClientUnchanged

----------------------------------------------------------------------------
(* Form client: inputs.                                                    *)

\* what the user types into a field
AuthorTexts == {"", "Adele"}
SongTexts == {"", "Hello"}
DescriptionTexts == {"", "sad"}

\* the JSON a response body parses to: not JSON at all, null, or an object
\* with or without a lyrics field
Data(l) == [t |-> "data", lyrics |-> l]
\* a Response: its status, what res.text() gives (a Str, or a failed read),
\* and what res.json() gives
FetchResponses ==
    {[status |-> 200, text |-> Str("{\"lyrics\":\"la la\"}"), data |-> Data(Str("la la"))],
     [status |-> 200, text |-> Str("{\"lyrics\":\"\"}"), data |-> Data(Str(""))],
     [status |-> 200, text |-> Str("{}"), data |-> Data(Undefined)],
     [status |-> 200, text |-> Str("null"), data |-> JsNull],
     [status |-> 200, text |-> Str("<html>"), data |-> [t |-> "invalid"]],
     [status |-> 400, text |-> Str("{\"error\":\"Missing authorName or song\"}"),
      data |-> Data(Undefined)],
     [status |-> 500, text |-> Str("{\"error\":\"boom\"}"), data |-> Data(Undefined)],
     [status |-> 500, text |-> Str(""), data |-> [t |-> "invalid"]],
     [status |-> 502, text |-> [t |-> "throw"], data |-> [t |-> "invalid"]]}

----------------------------------------------------------------------------
(* Form client: the pure steps.                                            *)

\* home-view.tsx:72-76, the keys of z.object in order, each z.string().min(1, message)
formSchema ==
    <<[key |-> "authorName", min |-> 1, message |-> "Author name is required"],
      [key |-> "song", min |-> 1, message |-> "Song is required"],
      [key |-> "description", min |-> 1, message |-> "Description is required"]>>

\* formSchema.safeParse(values).error.errors: one issue per failing key, in key order
Issues(values) ==
    LET Fails(rule) == Len(values[rule.key]) < rule.min
    IN  SelectSeq(formSchema, Fails)

\* home-view.tsx:85-86: parsed.error.errors[0], first?.message ?? "Invalid input"
FirstIssueMessageLast(issues) ==
    IF issues = <<>> THEN "Invalid input" ELSE issues[Len(issues)].message
FirstIssueMessage(issues) ==
    IF issues = <<>> THEN "Invalid input" ELSE Head(issues).message

\* res.ok
Ok(r) == r.status >= 200 /\ r.status <= 299

\* `${n}` of a non-negative integer
DecimalDigit(d) == <<"0", "1", "2", "3", "4", "5", "6", "7", "8", "9">>[d + 1]
RECURSIVE NumberString(_)
NumberString(n) ==
    IF n < 10 THEN DecimalDigit(n)
    ELSE NumberString(n \div 10) \o DecimalDigit(n % 10)

\* home-view.tsx:52-53: await res.text().catch(() => ""), then
\* new Error(text || `Server returned ${res.status}`)
ServerError(r) ==
    LET text == IF r.text.t = "throw" THEN Str("") ELSE r.text
    IN  [name |-> "Error",
         message |-> Or(text, Str("Server returned " \o NumberString(r.status))).v]

\* the errors fetch and res.json() reject with
AbortError == [name |-> "AbortError", message |-> "The operation was aborted."]
NetworkError == [name |-> "TypeError", message |-> "Failed to fetch"]
SyntaxError == [name |-> "SyntaxError", message |-> "Unexpected token < in JSON"]

\* home-view.tsx:57-66: the inner catch handles AbortError and rethrows the
\* rest to the outer catch; the message that reaches setError
SurfacedErrorGeneric(err) == "Failed to generate lyrics. Please try again."
SurfacedError(err) ==
    IF err.name = "AbortError" THEN "Request timed out. Try again."
    ELSE "Failed to generate lyrics. Please try again."

\* home-view.tsx:56: data?.lyrics ?? ""
LyricsOfNoDefault(data) ==
    IF data.t \in {"undefined", "null"} THEN JsNull
    ELSE IF data.lyrics.t = "undefined" THEN JsNull ELSE data.lyrics
LyricsOf(data) ==
    Nullish(IF data.t \in {"undefined", "null"} THEN Undefined ELSE data.lyrics, Str(""))

----------------------------------------------------------------------------
(* Form client: the handlers and the continuations of handleSubmit.        *)

ServerUnchanged == UNCHANGED serverVars

\* home-view.tsx:125
setAuthorName(v) ==
    /\ authorName' = v
    /\ v # authorName
    /\ UNCHANGED <<song, description, error, loading, result, cpc, res, timeout,
                   aborted, staleTimers, lastSubmit>>
    /\ ServerUnchanged

\* home-view.tsx:135
setSong(v) ==
    /\ song' = v
    /\ v # song
    /\ UNCHANGED <<authorName, description, error, loading, result, cpc, res, timeout,
                   aborted, staleTimers, lastSubmit>>
    /\ ServerUnchanged

\* home-view.tsx:145
setDescription(v) ==
    /\ description' = v
    /\ v # description
    /\ UNCHANGED <<authorName, song, error, loading, result, cpc, res, timeout,
                   aborted, staleTimers, lastSubmit>>
    /\ ServerUnchanged

\* home-view.tsx:64-69: the catch and finally of handleSubmit for a thrown err
Fail(err) ==
    /\ error' = Str(SurfacedError(err))
    /\ loading' = FALSE
    /\ cpc' = "idle"

\* home-view.tsx:79-90 and 29-49: the form is submitted (the submit button is
\* disabled while loading, line 162); both states are cleared, the values are
\* validated and, when valid, handleSubmit runs up to its await of fetch
onSubmit ==
    /\ ~loading
    /\ LET values == [authorName |-> authorName, song |-> song,
                      description |-> description]
           issues == Issues(values)
       IN  IF issues # <<>> THEN
               /\ error' = Str(FirstIssueMessage(issues))
               /\ result' = JsNull
               /\ lastSubmit' = [t |-> "submit", values |-> values, fetched |-> FALSE]
               /\ UNCHANGED <<loading, cpc, res, timeout, aborted, staleTimers>>
           ELSE
               \* a timer left armed by an earlier submission keeps running
               /\ timeout = "armed" => staleTimers < MaxStaleTimers
               /\ staleTimers' = IF timeout = "armed" THEN staleTimers + 1 ELSE staleTimers
               /\ error' = JsNull
               /\ result' = JsNull
               /\ loading' = TRUE
               /\ aborted' = FALSE
               /\ timeout' = "armed"
               /\ res' = None
               /\ cpc' = "fetching"
               /\ lastSubmit' = [t |-> "submit", values |-> values, fetched |-> TRUE]
    /\ UNCHANGED <<authorName, song, description>>
    /\ ServerUnchanged

\* home-view.tsx:44-55: fetch resolves with r before the timer; the timer is
\* cleared and the body is read, as text when !res.ok and as JSON otherwise
FetchResolve(r) ==
    /\ cpc = "fetching"
    /\ ~aborted
    /\ res' = r
    /\ timeout' = "cleared"
    /\ cpc' = IF Ok(r) THEN "readingJson" ELSE "readingText"
    /\ UNCHANGED <<authorName, song, description, error, loading, result, aborted,
                   staleTimers, lastSubmit>>
    /\ ServerUnchanged

\* home-view.tsx:44-69: fetch rejects with a network error; clearTimeout is not reached
FetchReject ==
    /\ cpc = "fetching"
    /\ ~aborted
    /\ Fail(NetworkError)
    /\ UNCHANGED <<authorName, song, description, result, res, timeout, aborted,
                   staleTimers, lastSubmit>>
    /\ ServerUnchanged

\* home-view.tsx:42: the 20 s timer fires, () => controller.abort()
TimerFire ==
    /\ timeout = "armed"
    /\ timeout' = "fired"
    /\ aborted' = TRUE
    /\ UNCHANGED <<authorName, song, description, error, loading, result, cpc, res,
                   staleTimers, lastSubmit>>
    /\ ServerUnchanged

\* home-view.tsx:44-69: the aborted fetch rejects with an AbortError
FetchAbort ==
    /\ cpc = "fetching"
    /\ aborted
    /\ Fail(AbortError)
    /\ UNCHANGED <<authorName, song, description, result, res, timeout, aborted,
                   staleTimers, lastSubmit>>
    /\ ServerUnchanged

\* home-view.tsx:52-69: res.text() settles and the server's error is thrown
TextSettle ==
    /\ cpc = "readingText"
    /\ Fail(ServerError(res))
    /\ UNCHANGED <<authorName, song, description, result, res, timeout, aborted,
                   staleTimers, lastSubmit>>
    /\ ServerUnchanged

\* home-view.tsx:55-69: res.json() settles; the lyrics are shown, or the
\* parse error is thrown
JsonSettle ==
    /\ cpc = "readingJson"
    /\ IF res.data.t = "invalid" THEN
           /\ Fail(SyntaxError)
           /\ UNCHANGED result
       ELSE
           /\ result' = LyricsOf(res.data)
           /\ loading' = FALSE
           /\ cpc' = "idle"
           /\ UNCHANGED error
    /\ UNCHANGED <<authorName, song, description, res, timeout, aborted,
                   staleTimers, lastSubmit>>
    /\ ServerUnchanged

\* home-view.tsx:42: the timer of an earlier submission fires; its controller's
\* fetch has already settled, so the abort changes nothing
StaleTimerFire ==
    /\ staleTimers > 0
    /\ staleTimers' = staleTimers - 1
    /\ UNCHANGED <<authorName, song, description, error, loading, result, cpc, res,
                   timeout, aborted, lastSubmit>>
    /\ ServerUnchanged

----------------------------------------------------------------------------
(* Specifications.                                                         *)

ServerInit ==
    /\ env \in Envs
    /\ pc = "idle"
    /\ req = None
    /\ originalLyrics = ""
    /\ prompt = ""
    /\ lyricsCall = "none"
    /\ completionCall = "none"
    /\ lyricsCalls = 0
    /\ completionCalls = 0
    /\ lyricsOutcome = None
    /\ completionOutcome = None
    /\ response = None
    /\ nResponses = 0

\* home-view.tsx:19-26
ClientInit ==
    /\ authorName = ""
    /\ song = ""
    /\ description = ""
    /\ error = JsNull
    /\ loading = FALSE
    /\ result = JsNull
    /\ cpc = "idle"
    /\ res = None
    /\ timeout = "none"
    /\ aborted = FALSE
    /\ staleTimers = 0
    /\ lastSubmit = None

Init == ServerInit /\ ClientInit

Next ==
    \/ \E body \in Bodies : POST(body)
    \/ ParseBody
    \/ \E g \in LyricsOutcomes : LyricsSettle(g)
    \/ \E o \in CompletionOutcomes : CompletionSettle(o)

Spec == Init /\ [][Next]_vars

ClientNext ==
    \/ \E v \in AuthorTexts : setAuthorName(v)
    \/ \E v \in SongTexts : setSong(v)
    \/ \E v \in DescriptionTexts : setDescription(v)
    \/ onSubmit
    \/ \E r \in FetchResponses : FetchResolve(r)
    \/ FetchReject
    \/ TimerFire
    \/ FetchAbort
    \/ TextSettle
    \/ JsonSettle
    \/ StaleTimerFire

\* the client runs against one fixed server configuration
ClientSpecInit == Init /\ env = [GEMINI_API_KEY |-> Str("sk-key"),
                                 OPENROUTER_API_KEY |-> Undefined,
                                 OPENAI_API_KEY |-> Undefined]

ClientSpec == ClientSpecInit /\ [][ClientNext]_vars

\* the event loop runs every pending continuation and every armed timer
ClientFair ==
    /\ ClientSpec
    /\ WF_vars(TimerFire)
    /\ WF_vars(FetchAbort)
    /\ WF_vars(TextSettle)
    /\ WF_vars(JsonSettle)
    /\ WF_vars(StaleTimerFire)

----------------------------------------------------------------------------
(* Properties of the request handler, checked under Spec.                  *)

\* the body carries a non-empty authorName and a non-empty song
RequiredPresent(b) ==
    /\ b.t = "obj"
    /\ b.authorName.t = "str" /\ b.authorName.v # ""
    /\ b.song.t = "str" /\ b.song.v # ""

\* none of the three key sources is non-empty
NoKeyConfigured ==
    \A k \in {"GEMINI_API_KEY", "OPENROUTER_API_KEY", "OPENAI_API_KEY"} :
        env[k] = Undefined \/ env[k] = Str("")

MissingKeyResponse == Response(500, "error", "Missing GEMINI_API_KEY / OpenRouter API key")

\* C1: every request whose body lacks a non-empty authorName or a non-empty
\* song (a body that is no object with those fields included) ends with the
\* response 400 {error: "Missing authorName or song"}, and neither provider
\* is called.
C1_MissingFieldsAlways400 ==
    (pc = "done" /\ req.t # "none" /\ ~RequiredPresent(req)) =>
        /\ response = Response(400, "error", "Missing authorName or song")
        /\ lyricsCalls = 0
        /\ completionCalls = 0

\* C2: for a request with non-empty authorName and song, when no key source
\* is non-empty the completion provider is never called and the request ends
\* with the one response 500 {error: "Missing GEMINI_API_KEY / OpenRouter API
\* key"}, however the lyrics call settled.
C2_NoKeyAlways500 ==
    (RequiredPresent(req) /\ NoKeyConfigured) =>
        /\ completionCall = "none"
        /\ completionCalls = 0
        /\ pc # "awaitCompletion"
        /\ pc = "done" => (response = MissingKeyResponse /\ nResponses = 1)

C2_Witness ==
    /\ pc = "done"
    /\ RequiredPresent(req)
    /\ NoKeyConfigured
    /\ env.OPENROUTER_API_KEY = Str("")
    /\ lyricsOutcome.t = "throw"
    /\ response = MissingKeyResponse

\* the lyrics call failed: it threw, found nothing, or returned a value that
\* is neither a string nor an object with a string lyrics field
LyricsFailed(o) ==
    \/ o.t \in {"throw", "undefined", "null", "num"}
    \/ o.t = "geniusObj" /\ o.lyrics.t # "str"

\* C3 as stated: whenever the lyrics call fails for any reason (threw,
\* not found, malformed or unrecognizable result), originalLyrics is the
\* empty string.
C3_FailureGivesEmptyLyrics ==
    (lyricsCall = "settled" /\ LyricsFailed(lyricsOutcome)) => originalLyrics = ""

\* C3 amended: when the lyrics call throws, or returns a value with no JSON
\* form, originalLyrics is the empty string; when it returns any other value
\* that is neither a string nor an object with a string lyrics field,
\* originalLyrics is that value's JSON text (at most 4000 characters); the
\* prompt carries originalLyrics in its original-lyrics section; and in
\* every case the request goes on: to the missing-key response when no key
\* is configured, to exactly one completion call otherwise.
C3_FailureRecovered ==
    (lyricsCall = "settled" /\ LyricsFailed(lyricsOutcome)) =>
        /\ lyricsOutcome.t \in {"throw", "undefined"} => originalLyrics = ""
        /\ lyricsOutcome.t = "null" => originalLyrics = "null"
        /\ lyricsOutcome.t = "num" => originalLyrics = lyricsOutcome.digits
        /\ lyricsOutcome = GeniusObj(Undefined) => originalLyrics = "{}"
        /\ lyricsOutcome = GeniusObj(Num("5")) => originalLyrics = "{\"lyrics\":5}"
        /\ Len(originalLyrics) <= 4000
        /\ \E d \in {"undefined", "", "sad"} :
              prompt = PromptHead \o originalLyrics \o PromptMid \o d \o PromptTail
        /\ IF NoKeyConfigured
           THEN pc = "done" /\ response = MissingKeyResponse
           ELSE completionCalls = 1 /\ completionCall # "none"
                /\ (pc = "done" => completionCall = "settled")

C3_Witness ==
    /\ lyricsCall = "settled"
    /\ lyricsOutcome.t = "throw"
    /\ originalLyrics = ""
    /\ pc = "awaitCompletion"
    /\ completionCall = "inflight"

\* the parts of a content sequence, concatenated in order as C4 states it
RECURSIVE C4_Concat(_)
C4_Concat(ps) ==
    IF ps = <<>> THEN ""
    ELSE (IF Head(ps).t = "str" THEN Head(ps).v
          ELSE IF Head(ps).t = "part" /\ Head(ps).text.t = "str" THEN Head(ps).text.v
          ELSE "") \o C4_Concat(Tail(ps))

\* C4: every completion returned without an exception ends the request with
\* 200 {lyrics: T}: T is "" when the first choice has no message, the content
\* itself when the content is a string (the empty string included), and the
\* in-order concatenation of the parts when the content is a sequence.
C4_ExtractedText ==
    (pc = "done" /\ completionOutcome.t = "ok") =>
        LET m == FirstMessage(completionOutcome.completion) IN
        /\ response.status = 200
        /\ response.key = "lyrics"
        /\ m.t = "undefined" => response.text = ""
        /\ (m.t = "msg" /\ m.content.t = "str") => response.text = m.content.v
        /\ (m.t = "msg" /\ m.content.t = "arr") => response.text = C4_Concat(m.content.items)

\* C5: when the completion call throws there is no second completion call,
\* and the request ends with exactly one response: 500 {error: m}, m the
\* exception's message, or its string form when it is no Error; never a 200.
C5_CompletionFailureIs500 ==
    (completionOutcome.t = "throw") =>
        /\ pc = "done"
        /\ completionCall = "settled"
        /\ completionCalls = 1
        /\ nResponses = 1
        /\ response = Response(500, "error",
                               IF completionOutcome.err.isError
                               THEN completionOutcome.err.message.v
                               ELSE completionOutcome.err.string)

C5_Witness ==
    /\ pc = "done"
    /\ completionOutcome.t = "throw"
    /\ completionOutcome.err.isError
    /\ response = Response(500, "error", "429 Too Many Requests")

\* C10: within one request the completion call begins only after the lyrics
\* call has settled, the two are never in flight together, and each is made
\* at most once.
C10_CallsSequential ==
    /\ ~(lyricsCall = "inflight" /\ completionCall = "inflight")
    /\ completionCall # "none" => lyricsCall = "settled"
    /\ completionCalls > 0 => lyricsCall = "settled"
    /\ lyricsCalls <= 1
    /\ completionCalls <= 1
    /\ lyricsCall # "none" <=> lyricsCalls = 1
    /\ completionCall # "none" <=> completionCalls = 1

C10_Witness ==
    /\ lyricsCall = "settled"
    /\ lyricsCalls = 1
    /\ completionCall = "inflight"
    /\ completionCalls = 1

----------------------------------------------------------------------------
(* Properties of the form client, checked under ClientSpec and ClientFair. *)

\* C6 as stated: in every reachable state exactly one of result and error is
\* non-null.
C6_ExactlyOneNonNull == (result = JsNull) # (error = JsNull)

\* C6 amended: at most one of result and error is non-null in every state;
\* both are null before the first submit and while a submission is in flight
\* (a valid submit clears both before it starts); exactly one is non-null
\* after a validation failure and after a submission settles.
C6_AtMostOneNonNull ==
    /\ ~(result # JsNull /\ error # JsNull)
    /\ lastSubmit = None => (result = JsNull /\ error = JsNull)
    /\ loading => (result = JsNull /\ error = JsNull)
    /\ (lastSubmit # None /\ ~loading) => ((result = JsNull) # (error = JsNull))

C6_Witness ==
    /\ ~loading
    /\ res # None /\ res.data = Data(Undefined)
    /\ result = Str("")
    /\ error = JsNull

\* C7: when the response arrives before the timeout with a non-2xx status,
\* the error shown is the response body text, or "Server returned <status>"
\* when the body is empty.
C7_ServerErrorShown ==
    (cpc = "idle" /\ res # None /\ ~Ok(res)) =>
        error = Str(IF res.text.t = "str" /\ res.text.v # ""
                    THEN res.text.v
                    ELSE "Server returned " \o NumberString(res.status))

TimedOutMessage == "Request timed out. Try again."

\* C8: when the timer fires while the fetch is pending the call is aborted;
\* the aborted call ends only by showing exactly "Request timed out. Try
\* again." with result null and loading false, and it does end; loading is
\* true only between the start of a valid submission and its settling.
C8_TimeoutShown ==
    /\ [](loading <=> cpc # "idle")
    /\ [](loading => (lastSubmit # None /\ lastSubmit.fetched))
    /\ [][(cpc = "fetching" /\ timeout = "armed" /\ timeout' = "fired")
            => (aborted' /\ cpc' = "fetching" /\ result' = JsNull)]_vars
    /\ [][(cpc = "fetching" /\ aborted /\ cpc' # "fetching")
            => (error' = Str(TimedOutMessage) /\ result' = JsNull /\ ~loading')]_vars
    /\ ((cpc = "fetching" /\ aborted) ~> ~loading)

C8_Witness ==
    /\ cpc = "idle"
    /\ ~loading
    /\ timeout = "fired"
    /\ res = None
    /\ error = Str(TimedOutMessage)
    /\ result = JsNull

\* the last submit had an empty description
SubmittedEmptyDescription ==
    lastSubmit # None /\ lastSubmit.values.description = ""

\* C9 as stated: every submit with an empty description, whatever authorName
\* and song are, issues no network call, leaves loading false and shows
\* "Description is required".
C9_DescriptionRequiredShown ==
    SubmittedEmptyDescription =>
        /\ ~lastSubmit.fetched
        /\ ~loading
        /\ error = Str("Description is required")

\* C9 amended: every submit with an empty description issues no network call,
\* leaves loading false and shows the message of the first failing field:
\* "Author name is required" when authorName is empty, else "Song is
\* required" when song is empty, else "Description is required".
C9_FirstFailureShown ==
    SubmittedEmptyDescription =>
        /\ ~lastSubmit.fetched
        /\ ~loading
        /\ cpc = "idle"
        /\ result = JsNull
        /\ error = Str(IF lastSubmit.values.authorName = "" THEN "Author name is required"
                       ELSE IF lastSubmit.values.song = "" THEN "Song is required"
                       ELSE "Description is required")

C9_Witness ==
    /\ SubmittedEmptyDescription
    /\ lastSubmit.values.authorName = "Adele"
    /\ lastSubmit.values.song = "Hello"
    /\ error = Str("Description is required")
    /\ ~loading

====
